---------------------------- MODULE Spec2Model ----------------------------
(***************************************************************************)
(* A model of sahara's CDH plugin helper (plugins/cdh/cloudera_utils.py)   *)
(* and of its periodic tasks (service/periodic.py).                        *)
(*                                                                         *)
(* Every operation of the source starts from one initial state (nothing    *)
(* called yet); an operation's inputs are drawn when it is called.  Each   *)
(* specification below runs one operation (or one group of tasks that      *)
(* share state) and leaves the other variables alone.                      *)
(***************************************************************************)
EXTENDS Integers, Sequences, FiniteSets, TLC

VARIABLES
    \* ---- cloudera_cmd (cloudera_utils.py:38-50)
    cmdPc,        \* "idle" | "next" | "waiting" | "returned" | "raised"
    cmdProduced,  \* number of Commands the wrapped generator has yielded
    cmdWaited,    \* success flags of the Commands waited on, in order
    cmdResult,    \* the result of the last cmd.wait()
    cmdErr,       \* message of the HadoopProvisionError raised, or NoError
    \* ---- get_service_by_role (cloudera_utils.py:166-194)
    rtIn,         \* the arguments of the last call
    rtOut,        \* what the last call did: [raised, cm_cluster, service]
    \* ---- decommission_nodes (cloudera_utils.py:106-110)
    decPc,        \* "idle" | "decommission" | "delete" | "returned" | "raised"
    decArgs,      \* [process, cluster, role_names]
    decService,   \* the service get_service_by_role resolved
    decCmd,       \* how the decommission Command ended
    decDeleted,   \* the role names delete_role was called with, in order
    \* ---- await_agents (cloudera_utils.py:196-218)
    awPc,         \* "idle" | "test" | "checked" | "returned" | "raised"
    awInstances,  \* the fqdn()s of the instances the caller passed
    awElapsed,    \* delta_seconds(s_time, utcnow()), in seconds
    awInventory,  \* the hostnames Cloudera Manager knows at this moment
    awPolled,     \* the hostnames the last get_all_hosts returned
    awPollAt,     \* awElapsed when the last get_all_hosts was made
    awSince,      \* awElapsed since when every requested name has been in
                  \* awInventory without interruption, or Never
    \* ---- delete_instances (cloudera_utils.py:96-104)
    diPc,         \* "idle" | "loop" | "delete" | "returned" | "raised"
    diTargets,    \* hostsnames_to_deleted
    diAll,        \* the hosts get_all_hosts returned
    diHosts,      \* the hosts the for loop has still to visit
    diLog,        \* the calls made on the manager: [op, hostId, raised]
    \* ---- configure_instances (cloudera_utils.py:220-237)
    cfPc,         \* "idle" | "loop" | "returned" | "raised"
    cfArgs,       \* the instances passed, each with its node processes
    cfI,          \* index of the instance the outer loop is at
    cfJ,          \* index of the process the inner loop is at
    cfRoles,      \* the roles create_role was asked for, in order
    cfPushed,     \* the roles update_config was called on, in order
    cfErr,        \* what was raised and on which pair, or NoFailure
    \* ---- periodic tasks (periodic.py): what the tasks share
    ctx,          \* the current execution context: None or "admin"
    lastTask,     \* the periodic task that ended last, and how it ended
    \* ---- the records terminate_unneeded_clusters reads and writes
    use_identity_api_v3,  \* CONF.use_identity_api_v3
    periodic_enable,      \* CONF.periodic_enable
    use_domain_for_proxy_users,  \* CONF.use_domain_for_proxy_users
    now,          \* timeutils.utcnow(), in seconds
    clusters,     \* cluster id -> [status, is_transient, updated_at]
    openJobs,     \* cluster id -> number of job executions with no end time
    \* ---- terminate_unneeded_clusters (periodic.py:81-127)
    rpPc,         \* "idle" | "loop" | "terminate"
    rpList,       \* the clusters of cluster_get_all still to iterate over
    rpEval,       \* this cycle: cluster id -> what the guards read of it
    rpCalls,      \* this cycle: ids ops.terminate_cluster was called with
    rpFlagged,    \* this cycle: ids whose status update was requested
    rpFailed,     \* this cycle: ids whose termination raised
    rpOutcome,    \* "none" | "running" | "completed" | "aborted"
    rpAsked,      \* earlier cycles: ids cluster_update was called for
    rpRetry,      \* ids whose ops.terminate_cluster raised in the cycle
                  \* before this one and that had no job submitted since
    \* ---- check_for_zombie_proxy_users (periodic.py:129-142)
    users,        \* the names of the users of the proxy domain
    jobExec,      \* job execution id -> its status, or Missing
    zbPc,         \* "idle" | "loop"
    zbList,       \* the users of proxy_domain_users_list still to iterate
    zbLog,        \* this cycle: per user checked, the job execution looked
                  \* up, what the lookup gave, and whether proxy_user_delete
                  \* was called
    zbOutcome     \* "none" | "running" | "completed" | "aborted"

cmdVars == <<cmdPc, cmdProduced, cmdWaited, cmdResult, cmdErr>>
rtVars  == <<rtIn, rtOut>>
decVars == <<decPc, decArgs, decService, decCmd, decDeleted>>
taskVars == <<ctx, lastTask>>
confVars == <<use_identity_api_v3, periodic_enable,
              use_domain_for_proxy_users>>
dbVars  == <<confVars, now, clusters, openJobs>>
rpVars  == <<rpPc, rpList, rpEval, rpCalls, rpFlagged, rpFailed, rpOutcome,
             rpAsked, rpRetry>>
zbVars  == <<users, jobExec, zbPc, zbList, zbLog, zbOutcome>>
awVars  == <<awPc, awInstances, awElapsed, awInventory, awPolled, awPollAt,
             awSince>>
diVars  == <<diPc, diTargets, diAll, diHosts, diLog>>
cfVars  == <<cfPc, cfArgs, cfI, cfJ, cfRoles, cfPushed, cfErr>>
cuVars  == <<awVars, diVars, cfVars>>
cuButAw == <<diVars, cfVars>>
cuButDi == <<awVars, cfVars>>
cuButCf == <<awVars, diVars>>
cdhVars == <<cmdVars, rtVars, decVars, cuVars>>
vars    == <<cmdVars, rtVars, decVars, cuVars, taskVars, dbVars, rpVars,
             zbVars>>

----------------------------------------------------------------------------
(* Bounds of the model *)

MaxCmds == 2
MaxChildren == 2
MaxRoles == 2
MaxTicks == 3
MaxOpenJobs == 1
MaxHosts == 3
MaxInstances == 2
MaxProcs == 2

SeqsUpTo(S, n) == UNION {[1..k -> S] : k \in 0..n}

----------------------------------------------------------------------------
(* cloudera_cmd: wait on every Command the operation yields                 *)

Messages == {"m1", "m2"}
NoError == "no error"

\* A completed child Command: the fields the wrapper reads of it.
ChildSet == [success : BOOLEAN, resultMessage : Messages]

\* What cmd.wait() can return.  children is None (hasChildren = FALSE) or a
\* list, which may be empty.
ResultSet ==
    {[success |-> s, hasChildren |-> FALSE, children |-> <<>>,
      resultMessage |-> m] : s \in BOOLEAN, m \in Messages}
    \cup
    {[success |-> s, hasChildren |-> TRUE, children |-> ch,
      resultMessage |-> m] :
        s \in BOOLEAN, m \in Messages, ch \in SeqsUpTo(ChildSet, MaxChildren)}

NoResult == [success |-> TRUE, hasChildren |-> FALSE, children |-> <<>>,
             resultMessage |-> "none"]

\* Mutant: the last failing child instead of the first.
RECURSIVE LastFailingChild(_, _)
LastFailingChild(children, i) ==
    IF i > Len(children) THEN 0
    ELSE LET later == LastFailingChild(children, i + 1)
         IN  IF later # 0 THEN later
             ELSE IF ~children[i].success THEN i ELSE 0

\* for c in result.children: if not c.success: raise ...   (lines 45-47)
\* The index of the child whose message is raised, 0 when the loop ends
\* without raising.
RECURSIVE FirstFailingChild(_, _)
FirstFailingChild(children, i) ==
    IF i > Len(children) THEN 0
    ELSE IF ~children[i].success THEN i
    ELSE FirstFailingChild(children, i + 1)

\* Mutant: the children are inspected whatever the Command's own success is.
CheckResultIgnoringSuccess(result) ==
    IF result.hasChildren /\ FirstFailingChild(result.children, 1) # 0
    THEN result.children[FirstFailingChild(result.children, 1)].resultMessage
    ELSE IF ~result.success /\ ~result.hasChildren THEN result.resultMessage
    ELSE NoError

\* Lines 43-49: the message raised for a result, NoError when nothing is
\* raised and the loop goes on.
CheckResult(result) ==
    IF ~result.success
    THEN IF result.hasChildren
         THEN LET k == FirstFailingChild(result.children, 1)
              IN  IF k # 0 THEN result.children[k].resultMessage ELSE NoError
         ELSE result.resultMessage
    ELSE NoError

\* A caller invokes an operation decorated with cloudera_cmd.
CmdCall ==
    /\ cmdPc = "idle"
    /\ cmdPc' = "next"
    /\ UNCHANGED <<cmdProduced, cmdWaited, cmdResult, cmdErr>>
    /\ UNCHANGED <<rtVars, decVars, cuVars, taskVars, dbVars,
                 rpVars, zbVars>>

\* for cmd in f(...): the generator runs to its next yield and submits a
\* Command (line 41).
CmdYield ==
    /\ cmdPc = "next"
    /\ cmdProduced < MaxCmds
    /\ cmdProduced' = cmdProduced + 1
    /\ cmdPc' = "waiting"
    /\ UNCHANGED <<cmdWaited, cmdResult, cmdErr>>
    /\ UNCHANGED <<rtVars, decVars, cuVars, taskVars, dbVars,
                 rpVars, zbVars>>

\* result = cmd.wait() and the check of the result (lines 42-49).
CmdWait ==
    /\ cmdPc = "waiting"
    /\ \E result \in ResultSet :
        /\ cmdResult' = result
        /\ cmdWaited' = Append(cmdWaited, result.success)
        /\ cmdErr' = CheckResult(result)
        /\ cmdPc' = IF CheckResult(result) # NoError THEN "raised" ELSE "next"
    /\ UNCHANGED cmdProduced
    /\ UNCHANGED <<rtVars, decVars, cuVars, taskVars, dbVars,
                 rpVars, zbVars>>

\* The generator is exhausted: the for loop ends and wrapper returns.
CmdReturn ==
    /\ cmdPc = "next"
    /\ cmdPc' = "returned"
    /\ UNCHANGED <<cmdProduced, cmdWaited, cmdResult, cmdErr>>
    /\ UNCHANGED <<rtVars, decVars, cuVars, taskVars, dbVars,
                 rpVars, zbVars>>

InitCmd ==
    /\ cmdPc = "idle"
    /\ cmdProduced = 0
    /\ cmdWaited = <<>>
    /\ cmdResult = NoResult
    /\ cmdErr = NoError

----------------------------------------------------------------------------
(* get_service_by_role                                                      *)

HDFS_SERVICE_NAME == "hdfs01"
YARN_SERVICE_NAME == "yarn01"
OOZIE_SERVICE_NAME == "oozie01"
HIVE_SERVICE_NAME == "hive01"
HUE_SERVICE_NAME == "hue01"
SPARK_SERVICE_NAME == "spark_on_yarn01"
ZOOKEEPER_SERVICE_NAME == "zookeeper01"
HBASE_SERVICE_NAME == "hbase01"

\* The process identifiers a caller may pass: the ones the chain of
\* conditions names, and some it does not.
TabledProcesses ==
    {"NAMENODE", "DATANODE", "SECONDARYNAMENODE", "RESOURCEMANAGER",
     "NODEMANAGER", "JOBHISTORY", "OOZIE_SERVER", "HIVESERVER2",
     "HIVEMETASTORE", "WEBHCAT", "HUE_SERVER", "SPARK_YARN_HISTORY_SERVER",
     "SERVER", "MASTER", "REGIONSERVER"}
OtherProcesses ==
    {"CLOUDERA_MANAGER", "HDFS_NAMENODE", "namenode", "IMPALAD", ""}
Processes == TabledProcesses \cup OtherProcesses

None == "None"
CdhClusters == {"cluster1", "cluster2"}
CdhInstances == {"inst1", "inst2"}
\* instance.node_group.cluster
ClusterOfInstance(i) == IF i = "inst1" THEN "cluster1" ELSE "cluster2"

NoService == "no service"
RtOk == "returned"
RtMissingArgument == "ValueError: 'cluster' or 'instance' argument missed"
RtUnsupported == "ValueError: process is not supported by CDH plugin"

\* Mutant: JOBHISTORY is looked up in the HDFS branch.
ServiceNameOfSwapped(process) ==
    IF process \in {"NAMENODE", "DATANODE", "SECONDARYNAMENODE", "JOBHISTORY"}
    THEN HDFS_SERVICE_NAME
    ELSE IF process \in {"RESOURCEMANAGER", "NODEMANAGER"}
    THEN YARN_SERVICE_NAME
    ELSE IF process \in {"OOZIE_SERVER"} THEN OOZIE_SERVICE_NAME
    ELSE IF process \in {"HIVESERVER2", "HIVEMETASTORE", "WEBHCAT"}
    THEN HIVE_SERVICE_NAME
    ELSE IF process \in {"HUE_SERVER"} THEN HUE_SERVICE_NAME
    ELSE IF process \in {"SPARK_YARN_HISTORY_SERVER"} THEN SPARK_SERVICE_NAME
    ELSE IF process \in {"SERVER"} THEN ZOOKEEPER_SERVICE_NAME
    ELSE IF process \in {"MASTER", "REGIONSERVER"} THEN HBASE_SERVICE_NAME
    ELSE NoService

\* Lines 175-194: the chain of conditions; NoService is the else branch,
\* which raises.
ServiceNameOf(process) ==
    IF process \in {"NAMENODE", "DATANODE", "SECONDARYNAMENODE"}
    THEN HDFS_SERVICE_NAME
    ELSE IF process \in {"RESOURCEMANAGER", "NODEMANAGER", "JOBHISTORY"}
    THEN YARN_SERVICE_NAME
    ELSE IF process \in {"OOZIE_SERVER"} THEN OOZIE_SERVICE_NAME
    ELSE IF process \in {"HIVESERVER2", "HIVEMETASTORE", "WEBHCAT"}
    THEN HIVE_SERVICE_NAME
    ELSE IF process \in {"HUE_SERVER"} THEN HUE_SERVICE_NAME
    ELSE IF process \in {"SPARK_YARN_HISTORY_SERVER"} THEN SPARK_SERVICE_NAME
    ELSE IF process \in {"SERVER"} THEN ZOOKEEPER_SERVICE_NAME
    ELSE IF process \in {"MASTER", "REGIONSERVER"} THEN HBASE_SERVICE_NAME
    ELSE NoService

\* get_service_by_role(process, cluster=None, instance=None): how the call
\* ends, the Cloudera cluster it looked the service up in, and the service.
GetServiceByRole(process, cluster, instance) ==
    LET cm_cluster == IF cluster # None THEN cluster
                      ELSE IF instance # None THEN ClusterOfInstance(instance)
                      ELSE None
    IN  IF cm_cluster = None
        THEN [raised |-> RtMissingArgument, cm_cluster |-> None,
              service |-> NoService]
        ELSE IF ServiceNameOf(process) = NoService
        THEN [raised |-> RtUnsupported, cm_cluster |-> cm_cluster,
              service |-> NoService]
        ELSE [raised |-> RtOk, cm_cluster |-> cm_cluster,
              service |-> ServiceNameOf(process)]

NoCall == [process |-> None, cluster |-> None, instance |-> None]
NoOut == [raised |-> "not called", cm_cluster |-> None, service |-> NoService]

\* One call of the router, with any arguments.
RouterCall ==
    /\ \E process \in Processes, cluster \in CdhClusters \cup {None},
          instance \in CdhInstances \cup {None} :
        /\ rtIn' = [process |-> process, cluster |-> cluster,
                    instance |-> instance]
        /\ rtOut' = GetServiceByRole(process, cluster, instance)
    /\ UNCHANGED <<cmdVars, decVars, cuVars, taskVars, dbVars,
                 rpVars, zbVars>>

InitRouter ==
    /\ rtIn = NoCall
    /\ rtOut = NoOut

----------------------------------------------------------------------------
(* decommission_nodes                                                       *)

RoleNames == {"role_a", "role_b", "role_c"}
DecProcesses == {"DATANODE", "NODEMANAGER", "IMPALAD"}

\* service.decommission(*role_names).wait(): the Command completes with
\* success true or false, or the call raises.
DecCmdOutcomes == {"success", "failed", "exception"}

\* The batches of role names a caller decommissions: at least one role.
RoleBatches == SeqsUpTo(RoleNames, MaxRoles) \ {<<>>}

NoArgs == [process |-> None, cluster |-> None, role_names |-> <<>>]

\* Line 107: service = self.get_service_by_role(process, cluster)
DecCall ==
    /\ decPc = "idle"
    /\ \E process \in DecProcesses, cluster \in CdhClusters,
          role_names \in RoleBatches :
        LET got == GetServiceByRole(process, cluster, None)
        IN  /\ decArgs' = [process |-> process, cluster |-> cluster,
                           role_names |-> role_names]
            /\ decService' = got.service
            /\ decPc' = IF got.raised = RtOk THEN "decommission" ELSE "raised"
    /\ UNCHANGED <<decCmd, decDeleted>>
    /\ UNCHANGED <<cmdVars, rtVars, cuVars, taskVars, dbVars,
                 rpVars, zbVars>>

\* Line 108: service.decommission(*role_names).wait(); the value wait()
\* returns is dropped.
DecWait ==
    /\ decPc = "decommission"
    /\ \E outcome \in DecCmdOutcomes :
        /\ decCmd' = outcome
        /\ decPc' = IF outcome = "exception" THEN "raised" ELSE "delete"
    /\ UNCHANGED <<decArgs, decService, decDeleted>>
    /\ UNCHANGED <<cmdVars, rtVars, cuVars, taskVars, dbVars,
                 rpVars, zbVars>>

\* Lines 109-110: service.delete_role(role_name), one role per step; the call
\* may raise.
DecDeleteRole ==
    /\ decPc = "delete"
    /\ Len(decDeleted) < Len(decArgs.role_names)
    /\ decDeleted' = Append(decDeleted,
                            decArgs.role_names[Len(decDeleted) + 1])
    /\ \E ok \in BOOLEAN : decPc' = IF ok THEN "delete" ELSE "raised"
    /\ UNCHANGED <<decArgs, decService, decCmd>>
    /\ UNCHANGED <<cmdVars, rtVars, cuVars, taskVars, dbVars,
                 rpVars, zbVars>>

\* The loop is over: decommission_nodes returns.
DecReturn ==
    /\ decPc = "delete"
    /\ Len(decDeleted) = Len(decArgs.role_names)
    /\ decPc' = "returned"
    /\ UNCHANGED <<decArgs, decService, decCmd, decDeleted>>
    /\ UNCHANGED <<cmdVars, rtVars, cuVars, taskVars, dbVars,
                 rpVars, zbVars>>

InitDec ==
    /\ decPc = "idle"
    /\ decArgs = NoArgs
    /\ decService = NoService
    /\ decCmd = "none"
    /\ decDeleted = <<>>

----------------------------------------------------------------------------
(* await_agents: wait until the agents of the instances have registered     *)

AWAIT_TIMEOUT == 300
SLEEP_SECONDS == 5

\* The hostnames the manager may know: the fqdn()s of two instances and a
\* host that belongs to no instance.
Fqdns == {"node1.example", "node2.example"}
Hostnames == Fqdns \cup {"other.example"}
NotPolled == {"not polled"}
Never == -1

\* Mutant: one more poll is made when the timeout has just elapsed.
LoopConditionInclusive(delta) == delta <= AWAIT_TIMEOUT
\* The condition of the while loop.
LoopCondition(delta) == delta < AWAIT_TIMEOUT

\* Mutant: one registered agent is enough.
IsOkAny(hostnames, hostnames_to_manager) ==
    \E hostname \in hostnames : hostname \in hostnames_to_manager
\* is_ok after the inner for loop: no requested hostname is missing.
IsOk(hostnames, hostnames_to_manager) ==
    \A hostname \in hostnames : hostname \in hostnames_to_manager

\* awSince after the inventory became inv.
SinceAfter(inv) ==
    IF awInstances \subseteq inv
    THEN (IF awSince = Never THEN awElapsed ELSE awSince)
    ELSE Never

\* An agent registers with the manager, or a host leaves its inventory.
HostRegister ==
    /\ awPc \notin {"returned", "raised"}
    /\ \E h \in Hostnames \ awInventory :
        /\ awInventory' = awInventory \cup {h}
        /\ awSince' = IF awPc = "idle" THEN Never
                      ELSE SinceAfter(awInventory \cup {h})
    /\ UNCHANGED <<awPc, awInstances, awElapsed, awPolled, awPollAt>>
    /\ UNCHANGED <<cmdVars, rtVars, decVars, cuButAw, taskVars, dbVars,
                   rpVars, zbVars>>

HostLeave ==
    /\ awPc \notin {"returned", "raised"}
    /\ \E h \in awInventory :
        /\ awInventory' = awInventory \ {h}
        /\ awSince' = IF awPc = "idle" THEN Never
                      ELSE SinceAfter(awInventory \ {h})
    /\ UNCHANGED <<awPc, awInstances, awElapsed, awPolled, awPollAt>>
    /\ UNCHANGED <<cmdVars, rtVars, decVars, cuButAw, taskVars, dbVars,
                   rpVars, zbVars>>

\* await_agents(instances) is called with at least one instance: s_time is
\* taken, so the elapsed time starts at 0.
AwaitCall ==
    /\ awPc = "idle"
    /\ \E instances \in (SUBSET Fqdns) \ {{}} :
        /\ awInstances' = instances
        /\ awSince' = IF instances \subseteq awInventory THEN 0 ELSE Never
    /\ awPc' = "test"
    /\ awElapsed' = 0
    /\ UNCHANGED <<awInventory, awPolled, awPollAt>>
    /\ UNCHANGED <<cmdVars, rtVars, decVars, cuButAw, taskVars, dbVars,
                   rpVars, zbVars>>

\* The loop condition holds: get_all_hosts is asked, which takes no time
\* to speak of or some seconds, and the inner for loop compares.
AwaitPoll ==
    /\ awPc = "test"
    /\ LoopCondition(awElapsed)
    /\ awPolled' = awInventory
    /\ awPollAt' = awElapsed
    /\ \E d \in {0, SLEEP_SECONDS} : awElapsed' = awElapsed + d
    /\ awPc' = "checked"
    /\ UNCHANGED <<awInstances, awInventory, awSince>>
    /\ UNCHANGED <<cmdVars, rtVars, decVars, cuButAw, taskVars, dbVars,
                   rpVars, zbVars>>

\* is_ok is False: context.sleep(5), then back to the loop condition.
AwaitSleep ==
    /\ awPc = "checked"
    /\ ~IsOk(awInstances, awPolled)
    /\ awElapsed' = awElapsed + SLEEP_SECONDS
    /\ awPc' = "test"
    /\ UNCHANGED <<awInstances, awInventory, awPolled, awPollAt, awSince>>
    /\ UNCHANGED <<cmdVars, rtVars, decVars, cuButAw, taskVars, dbVars,
                   rpVars, zbVars>>

\* is_ok is True: break, and the function returns.
AwaitBreak ==
    /\ awPc = "checked"
    /\ IsOk(awInstances, awPolled)
    /\ awPc' = "returned"
    /\ UNCHANGED <<awInstances, awElapsed, awInventory, awPolled, awPollAt,
                   awSince>>
    /\ UNCHANGED <<cmdVars, rtVars, decVars, cuButAw, taskVars, dbVars,
                   rpVars, zbVars>>

\* The loop condition fails: the else clause of the while raises
\* HadoopProvisionError("Cloudera agents failed to connect ...").
AwaitTimeout ==
    /\ awPc = "test"
    /\ ~LoopCondition(awElapsed)
    /\ awPc' = "raised"
    /\ UNCHANGED <<awInstances, awElapsed, awInventory, awPolled, awPollAt,
                   awSince>>
    /\ UNCHANGED <<cmdVars, rtVars, decVars, cuButAw, taskVars, dbVars,
                   rpVars, zbVars>>

InitAwait ==
    /\ awPc = "idle"
    /\ awInstances = {}
    /\ awElapsed = 0
    /\ awInventory = {}
    /\ awPolled = NotPolled
    /\ awPollAt = Never
    /\ awSince = Never

----------------------------------------------------------------------------
(* delete_instances: take the hosts of the instances out of the manager     *)

HostIds == {"id1", "id2", "id3"}
\* The inventories get_all_hosts may return: hosts with distinct ids; two
\* hosts may carry the same hostname.
HostRecords == [hostId : HostIds, hostname : Hostnames]
HostLists ==
    {hosts \in SeqsUpTo(HostRecords, MaxHosts) :
        \A i, j \in 1..Len(hosts) : i # j => hosts[i].hostId # hosts[j].hostId}

\* Mutant: every host of the inventory is taken for a host to delete.
MatchesAlways(host, hostsnames_to_deleted) == TRUE
\* host.hostname in hostsnames_to_deleted
Matches(host, hostsnames_to_deleted) ==
    host.hostname \in hostsnames_to_deleted

Called(op, host, raised) ==
    [op |-> op, hostId |-> host.hostId, raised |-> raised]

\* delete_instances(cluster, instances): the api client and the cluster are
\* fetched and the hosts are listed; any of the three may raise.
DeleteCall ==
    /\ diPc = "idle"
    /\ \E instances \in SUBSET Fqdns :
        /\ diTargets' = instances
        /\ \/ \E hosts \in HostLists :
                /\ diAll' = hosts
                /\ diHosts' = hosts
                /\ diPc' = "loop"
           \/ /\ diPc' = "raised"
              /\ UNCHANGED <<diAll, diHosts>>
    /\ UNCHANGED diLog
    /\ UNCHANGED <<cmdVars, rtVars, decVars, cuButDi, taskVars, dbVars,
                   rpVars, zbVars>>

\* The host at hand is none of the instances: the loop moves on.
DeleteSkipHost ==
    /\ diPc = "loop"
    /\ diHosts # <<>>
    /\ ~Matches(Head(diHosts), diTargets)
    /\ diHosts' = Tail(diHosts)
    /\ UNCHANGED <<diPc, diTargets, diAll, diLog>>
    /\ UNCHANGED <<cmdVars, rtVars, decVars, cuButDi, taskVars, dbVars,
                   rpVars, zbVars>>

\* cm_cluster.remove_host(host.hostId); what it raises leaves the function.
DeleteRemoveHost ==
    /\ diPc = "loop"
    /\ diHosts # <<>>
    /\ Matches(Head(diHosts), diTargets)
    /\ \E raised \in BOOLEAN :
        /\ diLog' = Append(diLog, Called("remove_host", Head(diHosts), raised))
        /\ diPc' = IF raised THEN "raised" ELSE "delete"
    /\ UNCHANGED <<diTargets, diAll, diHosts>>
    /\ UNCHANGED <<cmdVars, rtVars, decVars, cuButDi, taskVars, dbVars,
                   rpVars, zbVars>>

\* api.delete_host(host.hostId); what it raises leaves the function.
DeleteDeleteHost ==
    /\ diPc = "delete"
    /\ \E raised \in BOOLEAN :
        /\ diLog' = Append(diLog, Called("delete_host", Head(diHosts), raised))
        /\ diPc' = IF raised THEN "raised" ELSE "loop"
        /\ diHosts' = IF raised THEN diHosts ELSE Tail(diHosts)
    /\ UNCHANGED <<diTargets, diAll>>
    /\ UNCHANGED <<cmdVars, rtVars, decVars, cuButDi, taskVars, dbVars,
                   rpVars, zbVars>>

\* The for loop has visited every host.
DeleteReturn ==
    /\ diPc = "loop"
    /\ diHosts = <<>>
    /\ diPc' = "returned"
    /\ UNCHANGED <<diTargets, diAll, diHosts, diLog>>
    /\ UNCHANGED <<cmdVars, rtVars, decVars, cuButDi, taskVars, dbVars,
                   rpVars, zbVars>>

InitDelete ==
    /\ diPc = "idle"
    /\ diTargets = {}
    /\ diAll = <<>>
    /\ diHosts = <<>>
    /\ diLog = <<>>

----------------------------------------------------------------------------
(* configure_instances: one role per instance and declared process          *)

\* The names a node group may declare, and the names
\* pu.convert_role_showname may give for them: the helper belongs to the
\* derived class, so all that is known here is that it gives some name,
\* which get_service_by_role knows or not.
DeclaredProcesses == {"CLOUDERA_MANAGER", "HDFS_DATANODE", "YARN_NODEMANAGER"}
ConvertedNames == {"DATANODE", "NODEMANAGER", "IMPALAD"}
NoFailure == [what |-> "no failure", i |-> 0, j |-> 0]

InstanceRecords ==
    [name : CdhInstances, node_processes : SeqsUpTo(DeclaredProcesses, MaxProcs)]
\* The instance lists a caller may pass: no instance twice.
InstanceLists ==
    {insts \in SeqsUpTo(InstanceRecords, MaxInstances) :
        \A i, j \in 1..Len(insts) : i # j => insts[i].name # insts[j].name}

\* Mutant: the manager process is given a role like any other.
SkipsRoleNever(process) == FALSE
\* if process in ['CLOUDERA_MANAGER']: return
SkipsRole(process) == process \in {"CLOUDERA_MANAGER"}

Failure(what) == [what |-> what, i |-> cfI, j |-> cfJ]

\* configure_instances(instances, cluster)
ConfigureCall ==
    /\ cfPc = "idle"
    /\ \E instances \in InstanceLists : cfArgs' = instances
    /\ cfPc' = "loop"
    /\ UNCHANGED <<cfI, cfJ, cfRoles, cfPushed, cfErr>>
    /\ UNCHANGED <<cmdVars, rtVars, decVars, cuButCf, taskVars, dbVars,
                   rpVars, zbVars>>

\* _add_role(instance, process, cluster) for the pair the loops are at:
\* nothing for the manager process; otherwise the name is converted, the
\* service resolved, the role created and its configuration pushed, and
\* what any of these raises leaves configure_instances.
ConfigureAddRole ==
    /\ cfPc = "loop"
    /\ cfI <= Len(cfArgs)
    /\ cfJ <= Len(cfArgs[cfI].node_processes)
    /\ LET instance == cfArgs[cfI].name
           declared == cfArgs[cfI].node_processes[cfJ]
       IN  IF SkipsRole(declared)
           THEN /\ cfJ' = cfJ + 1
                /\ UNCHANGED <<cfPc, cfRoles, cfPushed, cfErr>>
           ELSE \E process \in ConvertedNames :
                LET found == GetServiceByRole(process, None, instance)
                    role == [i |-> cfI, j |-> cfJ, instance |-> instance,
                             process |-> process, service |-> found.service]
                IN  IF found.raised # RtOk
                    THEN /\ cfPc' = "raised"
                         /\ cfErr' = Failure(found.raised)
                         /\ UNCHANGED <<cfJ, cfRoles, cfPushed>>
                    ELSE \/ /\ cfPc' = "raised"
                            /\ cfErr' = Failure("create_role")
                            /\ UNCHANGED <<cfJ, cfRoles, cfPushed>>
                         \/ /\ cfRoles' = Append(cfRoles, role)
                            /\ cfPc' = "raised"
                            /\ cfErr' = Failure("update_config")
                            /\ UNCHANGED <<cfJ, cfPushed>>
                         \/ /\ cfRoles' = Append(cfRoles, role)
                            /\ cfPushed' = Append(cfPushed, role)
                            /\ cfJ' = cfJ + 1
                            /\ UNCHANGED <<cfPc, cfErr>>
    /\ UNCHANGED <<cfArgs, cfI>>
    /\ UNCHANGED <<cmdVars, rtVars, decVars, cuButCf, taskVars, dbVars,
                   rpVars, zbVars>>

\* configure_instance has gone through the processes of the instance.
ConfigureNextInstance ==
    /\ cfPc = "loop"
    /\ cfI <= Len(cfArgs)
    /\ cfJ > Len(cfArgs[cfI].node_processes)
    /\ cfI' = cfI + 1
    /\ cfJ' = 1
    /\ UNCHANGED <<cfPc, cfArgs, cfRoles, cfPushed, cfErr>>
    /\ UNCHANGED <<cmdVars, rtVars, decVars, cuButCf, taskVars, dbVars,
                   rpVars, zbVars>>

\* configure_instances has gone through the instances.
ConfigureReturn ==
    /\ cfPc = "loop"
    /\ cfI > Len(cfArgs)
    /\ cfPc' = "returned"
    /\ UNCHANGED <<cfArgs, cfI, cfJ, cfRoles, cfPushed, cfErr>>
    /\ UNCHANGED <<cmdVars, rtVars, decVars, cuButCf, taskVars, dbVars,
                   rpVars, zbVars>>

InitConfigure ==
    /\ cfPc = "idle"
    /\ cfArgs = <<>>
    /\ cfI = 1
    /\ cfJ = 1
    /\ cfRoles = <<>>
    /\ cfPushed = <<>>
    /\ cfErr = NoFailure

----------------------------------------------------------------------------
(* The periodic tasks: the state they share                                 *)

AdminCtx == "admin"
NoTask == [name |-> "none", outcome |-> "none"]

\* The tasks run one after the other in the scheduler's loop: a task starts
\* only when none is running.
NoTaskRunning == rpPc = "idle" /\ zbPc = "idle"

\* Mutant: the task of the proxy users has its spacing whatever the
\* deployment.
ZombieTaskSpacingAlways(use_domain) == 300
\* Line 70: zombie_task_spacing
ZombieTaskSpacing(use_domain) == IF use_domain THEN 300 ELSE -1

TaskNames == {"update_job_statuses", "terminate_unneeded_clusters",
              "check_for_zombie_proxy_users"}
\* The spacing each task is registered with by its decorator.
TaskSpacing(name) ==
    CASE name = "update_job_statuses" -> 45
      [] name = "terminate_unneeded_clusters" -> 90
      [] name = "check_for_zombie_proxy_users" ->
            ZombieTaskSpacing(use_domain_for_proxy_users)

\* The scheduler never runs a task whose interval is zero or less.
TaskDisabled(spacing) == spacing <= 0

\* setup() starts the timer that runs the tasks only if CONF.periodic_enable;
\* when a task that is not disabled is due is left open.
MayFire(name) == periodic_enable /\ ~TaskDisabled(TaskSpacing(name))

InitTasks ==
    /\ ctx = None
    /\ lastTask = NoTask

----------------------------------------------------------------------------
(* The clusters and job executions the conductor holds                      *)

ClusterIds == {"c1", "c2"}

\* min_transient_cluster_active_time (its default)
MIN_TRANSIENT_CLUSTER_ACTIVE_TIME == 30
\* The clock advances in steps of half the minimal lifetime.
TickSeconds == MIN_TRANSIENT_CLUSTER_ACTIVE_TIME \div 2

NoCluster == [status |-> "Absent", is_transient |-> FALSE, updated_at |-> 0]

\* The deployment the single operations run in: the identity API v3, the
\* periodic tasks and the proxy domain are all in use.
InitConf ==
    /\ use_identity_api_v3 = TRUE
    /\ periodic_enable = TRUE
    /\ use_domain_for_proxy_users = TRUE

InitDb ==
    /\ InitConf
    /\ now = 0
    /\ clusters = [c \in ClusterIds |-> NoCluster]
    /\ openJobs = [c \in ClusterIds |-> 0]

\* Time passes.
Tick ==
    /\ now < MaxTicks * TickSeconds
    /\ now' = now + TickSeconds
    /\ UNCHANGED <<confVars, clusters, openJobs>>
    /\ UNCHANGED <<cdhVars, taskVars, rpVars, zbVars>>

\* Provisioning ends: a cluster, transient or not, becomes Active.
ClusterActivate ==
    /\ \E c \in ClusterIds, transient \in BOOLEAN :
        /\ clusters[c].status = "Absent"
        /\ clusters' = [clusters EXCEPT ![c] =
                          [status |-> "Active", is_transient |-> transient,
                           updated_at |-> now]]
    /\ UNCHANGED <<confVars, now, openJobs>>
    /\ UNCHANGED <<cdhVars, taskVars, rpVars, zbVars>>

\* A foreground call submits a job execution (no end time yet) to an Active
\* cluster.
SubmitJob ==
    /\ \E c \in ClusterIds :
        /\ clusters[c].status = "Active"
        /\ openJobs[c] < MaxOpenJobs
        /\ openJobs' = [openJobs EXCEPT ![c] = @ + 1]
        /\ rpRetry' = rpRetry \ {c}
    /\ UNCHANGED <<confVars, now, clusters>>
    /\ UNCHANGED <<rpPc, rpList, rpEval, rpCalls, rpFlagged, rpFailed,
                   rpOutcome, rpAsked>>
    /\ UNCHANGED <<cdhVars, taskVars, zbVars>>

----------------------------------------------------------------------------
(* update_job_statuses                                                      *)

\* Lines 76-79: the context is set, and set_ctx(None) runs only when
\* job_manager.update_job_statuses() returns.
CtxAfterJobStatuses(raises) == IF raises THEN AdminCtx ELSE None

\* One run of the task.  The collaborator gives some running job executions
\* their end time, and returns or raises.
UpdateJobStatuses ==
    /\ NoTaskRunning
    /\ MayFire("update_job_statuses")
    /\ \E raises \in BOOLEAN, left \in [ClusterIds -> 0..MaxOpenJobs] :
        /\ \A c \in ClusterIds : left[c] <= openJobs[c]
        /\ openJobs' = left
        /\ ctx' = CtxAfterJobStatuses(raises)
        /\ lastTask' = [name |-> "update_job_statuses",
                        outcome |-> IF raises THEN "raised" ELSE "returned"]
    /\ UNCHANGED <<confVars, now, clusters>>
    /\ UNCHANGED <<cdhVars, rpVars, zbVars>>

----------------------------------------------------------------------------
(* terminate_unneeded_clusters                                              *)

NotEvaluated == [status |-> "not evaluated", is_transient |-> FALSE,
                 jc |-> 0, spacing |-> 0]

\* conductor.cluster_get_all(ctx, status='Active'): the Active clusters, as
\* read at the start of the cycle, in either order.
ActiveSnapshots ==
    LET active == {c \in ClusterIds : clusters[c].status = "Active"}
        rec(c) == [id |-> c, status |-> clusters[c].status,
                   is_transient |-> clusters[c].is_transient,
                   updated_at |-> clusters[c].updated_at]
    IN  {sq \in SeqsUpTo({rec(c) : c \in active}, Cardinality(active)) :
            /\ Len(sq) = Cardinality(active)
            /\ \A i, j \in 1..Len(sq) : i # j => sq[i] # sq[j]}

\* Mutant: a cluster is terminated only when older than the minimal lifetime.
PassesGuardsStrict(cluster, jc, current_time) ==
    /\ cluster.is_transient
    /\ ~(jc > 0)
    /\ ~(current_time - cluster.updated_at <= MIN_TRANSIENT_CLUSTER_ACTIVE_TIME)

\* Lines 87-103: the three guards, each of which skips the cluster.
PassesGuards(cluster, jc, current_time) ==
    /\ cluster.is_transient
    /\ ~(jc > 0)
    /\ ~(current_time - cluster.updated_at < MIN_TRANSIENT_CLUSTER_ACTIVE_TIME)

\* Mutant: the deployment's flag is not looked at.
UsesDirectTerminationAlways == TRUE
\* Line 105: if CONF.use_identity_api_v3
UsesDirectTermination == use_identity_api_v3

\* Lines 84-86: the context is set and the Active clusters are read; the
\* read may raise, which ends the task.
ReaperStart ==
    /\ NoTaskRunning
    /\ MayFire("terminate_unneeded_clusters")
    /\ ctx' = AdminCtx
    /\ rpEval' = [c \in ClusterIds |-> NotEvaluated]
    /\ rpCalls' = {}
    /\ rpFlagged' = {}
    /\ rpFailed' = {}
    /\ rpAsked' = IF UsesDirectTermination THEN rpAsked
                  ELSE rpAsked \cup rpFlagged \cup rpFailed
    /\ rpRetry' = {c \in rpCalls \cap rpFailed :
                      clusters[c].status = "Active" /\ openJobs[c] = 0}
    /\ \/ /\ \E sq \in ActiveSnapshots : rpList' = sq
          /\ rpPc' = "loop"
          /\ rpOutcome' = "running"
          /\ UNCHANGED lastTask
       \/ /\ rpList' = <<>>
          /\ rpPc' = "idle"
          /\ rpOutcome' = "aborted"
          /\ lastTask' = [name |-> "terminate_unneeded_clusters",
                          outcome |-> "raised"]
    /\ UNCHANGED <<cdhVars, dbVars, zbVars>>

\* Lines 87-103 for the next cluster of the list: the guards, with the count
\* of open job executions and the clock read now.
ReaperEvaluate ==
    /\ rpPc = "loop"
    /\ rpList # <<>>
    /\ LET cluster == Head(rpList)
           jc == openJobs[cluster.id]
       IN  /\ rpEval' = [rpEval EXCEPT ![cluster.id] =
                           [status |-> cluster.status,
                            is_transient |-> cluster.is_transient,
                            jc |-> jc,
                            spacing |-> now - cluster.updated_at]]
           /\ IF PassesGuards(cluster, jc, now)
              THEN rpPc' = "terminate" /\ UNCHANGED rpList
              ELSE rpPc' = "loop" /\ rpList' = Tail(rpList)
    /\ UNCHANGED <<rpCalls, rpFlagged, rpFailed, rpOutcome, rpAsked, rpRetry>>
    /\ UNCHANGED <<cdhVars, taskVars, dbVars, zbVars>>

\* The exception leaves the task: the rest of the list is dropped and
\* set_ctx(None) (line 127) does not run.
ReaperAbort ==
    /\ rpPc' = "idle"
    /\ rpList' = Tail(rpList)
    /\ rpOutcome' = "aborted"
    /\ lastTask' = [name |-> "terminate_unneeded_clusters",
                    outcome |-> "raised"]
    /\ UNCHANGED ctx

\* Lines 105-119: with the identity API v3, the admin token is set up (a
\* failure leaves the task) and ops.terminate_cluster is called inside the
\* try (a failure is logged and the loop goes on).
ReaperTerminateDirect ==
    /\ rpPc = "terminate"
    /\ UsesDirectTermination
    /\ LET cluster == Head(rpList)
       IN  \/ /\ ReaperAbort
              /\ rpFailed' = rpFailed \cup {cluster.id}
              /\ UNCHANGED <<rpCalls, clusters, openJobs>>
           \/ /\ rpCalls' = rpCalls \cup {cluster.id}
              /\ rpPc' = "loop"
              /\ rpList' = Tail(rpList)
              /\ \/ /\ clusters' = [clusters EXCEPT
                                      ![cluster.id].status = "Deleted"]
                    /\ openJobs' = [openJobs EXCEPT ![cluster.id] = 0]
                    /\ UNCHANGED rpFailed
                 \/ /\ rpFailed' = rpFailed \cup {cluster.id}
                    /\ UNCHANGED <<clusters, openJobs>>
              /\ UNCHANGED <<rpOutcome, taskVars>>
    /\ UNCHANGED <<rpEval, rpFlagged, rpAsked, rpRetry, confVars, now>>
    /\ UNCHANGED <<cdhVars, zbVars>>

\* Lines 121-126: without it, the status AwaitingTermination is requested;
\* cluster.status is the status read at the start of the cycle.  A failure of
\* cluster_update leaves the task.
ReaperFlag ==
    /\ rpPc = "terminate"
    /\ ~UsesDirectTermination
    /\ LET cluster == Head(rpList)
       IN  IF cluster.status # "AwaitingTermination"
           THEN \/ /\ ReaperAbort
                   /\ rpFailed' = rpFailed \cup {cluster.id}
                   /\ UNCHANGED <<rpFlagged, clusters>>
                \/ /\ rpFlagged' = rpFlagged \cup {cluster.id}
                   /\ clusters' = [clusters EXCEPT
                                     ![cluster.id].status = "AwaitingTermination"]
                   /\ rpPc' = "loop"
                   /\ rpList' = Tail(rpList)
                   /\ UNCHANGED <<rpFailed, rpOutcome, taskVars>>
           ELSE /\ rpPc' = "loop"
                /\ rpList' = Tail(rpList)
                /\ UNCHANGED <<rpFlagged, rpFailed, rpOutcome, clusters,
                               taskVars>>
    /\ UNCHANGED <<rpEval, rpCalls, rpAsked, rpRetry, confVars, now, openJobs>>
    /\ UNCHANGED <<cdhVars, zbVars>>

\* Line 127: the loop is over, the context is cleared.
ReaperEnd ==
    /\ rpPc = "loop"
    /\ rpList = <<>>
    /\ rpPc' = "idle"
    /\ rpOutcome' = "completed"
    /\ ctx' = None
    /\ lastTask' = [name |-> "terminate_unneeded_clusters",
                    outcome |-> "returned"]
    /\ UNCHANGED <<rpList, rpEval, rpCalls, rpFlagged, rpFailed, rpAsked,
                   rpRetry>>
    /\ UNCHANGED <<cdhVars, dbVars, zbVars>>

InitReaper ==
    /\ rpPc = "idle"
    /\ rpList = <<>>
    /\ rpEval = [c \in ClusterIds |-> NotEvaluated]
    /\ rpCalls = {}
    /\ rpFlagged = {}
    /\ rpFailed = {}
    /\ rpOutcome = "none"
    /\ rpAsked = {}
    /\ rpRetry = {}

----------------------------------------------------------------------------
(* check_for_zombie_proxy_users                                             *)

\* Names are sequences of characters.
JobPrefix == <<"j", "o", "b", "_">>
\* The users a proxy domain may hold: job_1, job_2, job1, admin.
UserNames ==
    {<<"j", "o", "b", "_", "1">>, <<"j", "o", "b", "_", "2">>,
     <<"j", "o", "b", "1">>, <<"a", "d", "m", "i", "n">>}
JobIds == {<<"1">>, <<"2">>}

Missing == "MISSING"
\* edp.JOB_STATUSES_TERMINATED and the statuses before them.
JOB_STATUSES_TERMINATED == {"DONEWITHERROR", "FAILED", "KILLED", "SUCCEEDED"}
JobStatusesRunning == {"PENDING", "RUNNING"}

\* user.name.startswith('job_')
StartsWith(name, prefix) ==
    /\ Len(name) >= Len(prefix)
    /\ SubSeq(name, 1, Len(prefix)) = prefix

\* je_id = user.name[4:]
JeIdOf(name) == SubSeq(name, 5, Len(name))

\* conductor.job_execution_get(ctx, je_id): the status of the job execution,
\* Missing for None.
JobExecutionGet(je_id) ==
    IF je_id \in DOMAIN jobExec THEN jobExec[je_id] ELSE Missing

\* Mutant: a job execution that is gone is not looked at.
IsZombieOnlyTerminated(je) == je # Missing /\ je \in JOB_STATUSES_TERMINATED

\* Lines 137-138: je is None or je.info['status'] in JOB_STATUSES_TERMINATED
IsZombie(je) == je = Missing \/ je \in JOB_STATUSES_TERMINATED

\* A user appears in the proxy domain.
CreateUser ==
    /\ \E name \in UserNames \ users : users' = users \cup {name}
    /\ UNCHANGED <<jobExec, zbPc, zbList, zbLog, zbOutcome>>
    /\ UNCHANGED <<cdhVars, taskVars, dbVars, rpVars>>

\* A job execution is created, goes on, ends, or is removed.
JobAdvance ==
    /\ \E id \in JobIds :
        \E st \in JobStatusesRunning \cup JOB_STATUSES_TERMINATED \cup {Missing} :
            /\ \/ jobExec[id] = Missing /\ st = "PENDING"
               \/ jobExec[id] = "PENDING" /\ st = "RUNNING"
               \/ jobExec[id] = "RUNNING" /\ st \in JOB_STATUSES_TERMINATED
               \/ jobExec[id] \in JOB_STATUSES_TERMINATED /\ st = Missing
            /\ jobExec' = [jobExec EXCEPT ![id] = st]
    /\ UNCHANGED <<users, zbPc, zbList, zbLog, zbOutcome>>
    /\ UNCHANGED <<cdhVars, taskVars, dbVars, rpVars>>

\* p.proxy_domain_users_list(): the users of the domain, in the order the
\* identity service lists them.
UserOrder ==
    <<<<"j", "o", "b", "_", "1">>, <<"a", "d", "m", "i", "n">>,
      <<"j", "o", "b", "1">>, <<"j", "o", "b", "_", "2">>>>
UserListing == SelectSeq(UserOrder, LAMBDA name : name \in users)

\* Lines 131-133: the context is set and the users are listed; the listing
\* may raise, which ends the task.
ZombieStart ==
    /\ NoTaskRunning
    /\ MayFire("check_for_zombie_proxy_users")
    /\ ctx' = AdminCtx
    /\ zbLog' = <<>>
    /\ \/ /\ zbList' = UserListing
          /\ zbPc' = "loop"
          /\ zbOutcome' = "running"
          /\ UNCHANGED lastTask
       \/ /\ zbList' = <<>>
          /\ zbPc' = "idle"
          /\ zbOutcome' = "aborted"
          /\ lastTask' = [name |-> "check_for_zombie_proxy_users",
                          outcome |-> "raised"]
    /\ UNCHANGED <<users, jobExec>>
    /\ UNCHANGED <<cdhVars, dbVars, rpVars>>

\* The exception leaves the task: the rest of the list is dropped and
\* set_ctx(None) (line 142) does not run.
ZombieAbort ==
    /\ zbPc' = "idle"
    /\ zbList' = Tail(zbList)
    /\ zbOutcome' = "aborted"
    /\ lastTask' = [name |-> "check_for_zombie_proxy_users",
                    outcome |-> "raised"]
    /\ UNCHANGED ctx

\* The loop goes on with the next user.
ZombieContinue ==
    /\ zbPc' = "loop"
    /\ zbList' = Tail(zbList)
    /\ UNCHANGED <<zbOutcome, taskVars>>

\* Lines 134-141 for the next user of the list.  job_execution_get and
\* proxy_user_delete may raise.
ZombieCheckUser ==
    /\ zbPc = "loop"
    /\ zbList # <<>>
    /\ LET name == Head(zbList)
           je_id == JeIdOf(name)
           je == JobExecutionGet(je_id)
           asked(deleted) == [name |-> name, asked |-> TRUE, je_id |-> je_id,
                              je |-> je, deleted |-> deleted]
           ignored == [name |-> name, asked |-> FALSE, je_id |-> <<>>,
                       je |-> "not asked", deleted |-> FALSE]
       IN  IF StartsWith(name, JobPrefix)
           THEN \/ /\ ZombieAbort
                   /\ UNCHANGED <<zbLog, users>>
                \/ /\ IsZombie(je)
                   /\ zbLog' = Append(zbLog, asked(TRUE))
                   /\ \/ /\ users' = users \ {name}
                         /\ ZombieContinue
                      \/ /\ UNCHANGED users
                         /\ ZombieAbort
                \/ /\ ~IsZombie(je)
                   /\ zbLog' = Append(zbLog, asked(FALSE))
                   /\ ZombieContinue
                   /\ UNCHANGED users
           ELSE /\ zbLog' = Append(zbLog, ignored)
                /\ ZombieContinue
                /\ UNCHANGED users
    /\ UNCHANGED jobExec
    /\ UNCHANGED <<cdhVars, dbVars, rpVars>>

\* Line 142: the loop is over, the context is cleared.
ZombieEnd ==
    /\ zbPc = "loop"
    /\ zbList = <<>>
    /\ zbPc' = "idle"
    /\ zbOutcome' = "completed"
    /\ ctx' = None
    /\ lastTask' = [name |-> "check_for_zombie_proxy_users",
                    outcome |-> "returned"]
    /\ UNCHANGED <<users, jobExec, zbList, zbLog>>
    /\ UNCHANGED <<cdhVars, dbVars, rpVars>>

InitZombie ==
    /\ users = {}
    /\ jobExec = [id \in JobIds |-> Missing]
    /\ zbPc = "idle"
    /\ zbList = <<>>
    /\ zbLog = <<>>
    /\ zbOutcome = "none"

----------------------------------------------------------------------------
(* Specifications *)

InitCdh ==
    /\ InitCmd /\ InitRouter /\ InitDec
    /\ InitAwait /\ InitDelete /\ InitConfigure
Init == InitCdh /\ InitTasks /\ InitDb /\ InitReaper /\ InitZombie

NextCmd == CmdCall \/ CmdYield \/ CmdWait \/ CmdReturn
SpecCmd == Init /\ [][NextCmd]_vars

NextRouter == RouterCall
SpecRouter == Init /\ [][NextRouter]_vars

NextDec == DecCall \/ DecWait \/ DecDeleteRole \/ DecReturn
SpecDec == Init /\ [][NextDec]_vars

AwaitStep == AwaitPoll \/ AwaitSleep \/ AwaitBreak \/ AwaitTimeout
NextAwait == HostRegister \/ HostLeave \/ AwaitCall \/ AwaitStep
SpecAwait == Init /\ [][NextAwait]_vars
\* The thread that runs await_agents is not suspended for ever.
SpecAwaitFair == SpecAwait /\ WF_vars(AwaitStep)

NextDelete ==
    \/ DeleteCall \/ DeleteSkipHost \/ DeleteRemoveHost \/ DeleteDeleteHost
    \/ DeleteReturn
SpecDelete == Init /\ [][NextDelete]_vars

NextConfigure ==
    \/ ConfigureCall \/ ConfigureAddRole \/ ConfigureNextInstance
    \/ ConfigureReturn
SpecConfigure == Init /\ [][NextConfigure]_vars

\* The job-status task and the reaper, with the clock and the foreground
\* calls that change what they read; the deployment has the identity API v3
\* or not.
InitPeriodic ==
    /\ InitCdh /\ InitTasks /\ InitReaper /\ InitZombie
    /\ use_identity_api_v3 \in BOOLEAN
    /\ periodic_enable = TRUE
    /\ use_domain_for_proxy_users = TRUE
    /\ now = 0
    /\ clusters = [c \in ClusterIds |-> NoCluster]
    /\ openJobs = [c \in ClusterIds |-> 0]
NextPeriodic ==
    \/ Tick \/ ClusterActivate \/ SubmitJob \/ UpdateJobStatuses
    \/ ReaperStart \/ ReaperEvaluate \/ ReaperTerminateDirect \/ ReaperFlag
    \/ ReaperEnd
SpecPeriodic == InitPeriodic /\ [][NextPeriodic]_vars

\* The reaper of proxy users, with the users and job executions it reads.
NextZombie ==
    CreateUser \/ JobAdvance \/ ZombieStart \/ ZombieCheckUser \/ ZombieEnd
SpecZombie == Init /\ [][NextZombie]_vars
\* The scheduler fires the task again and again, and the thread that runs
\* it is not suspended for ever.
SpecZombieFair ==
    /\ SpecZombie
    /\ WF_vars(ZombieStart) /\ WF_vars(ZombieCheckUser) /\ WF_vars(ZombieEnd)

\* The scheduler with its three tasks in any deployment, with users that
\* come into the proxy domain; no cluster is Active and no job execution
\* exists, so that the reaper of clusters finds nothing to visit and every
\* user bound to a job is a zombie.
InitSched ==
    /\ InitCdh /\ InitTasks /\ InitReaper /\ InitZombie
    /\ use_identity_api_v3 = TRUE
    /\ periodic_enable \in BOOLEAN
    /\ use_domain_for_proxy_users \in BOOLEAN
    /\ now = 0
    /\ clusters = [c \in ClusterIds |-> NoCluster]
    /\ openJobs = [c \in ClusterIds |-> 0]
NextSched ==
    \/ CreateUser \/ UpdateJobStatuses
    \/ ReaperStart \/ ReaperEnd
    \/ ZombieStart \/ ZombieCheckUser \/ ZombieEnd
SpecSched == InitSched /\ [][NextSched]_vars

Next ==
    \/ NextCmd \/ NextRouter \/ NextDec \/ NextAwait \/ NextDelete
    \/ NextConfigure
    \/ NextPeriodic \/ NextZombie
Spec == Init /\ [][Next]_vars

----------------------------------------------------------------------------
(* Claims about cloudera_cmd, get_service_by_role and decommission_nodes    *)

\* C1: decommission_nodes never deletes a role if the decommission Command
\* fails: when the Command completes with success = false, delete_role is
\* called zero times and the call does not return normally (the error
\* propagates to the caller).
C1_NoDeleteAfterFailedDecommission ==
    decCmd = "failed" => (Len(decDeleted) = 0 /\ decPc # "returned")

\* The decommission Command wait()ed on has at least one failing child.
CmdFailedWithFailingChild ==
    /\ Len(cmdWaited) > 0
    /\ ~cmdResult.success
    /\ cmdResult.hasChildren
    /\ \E i \in 1..Len(cmdResult.children) : ~cmdResult.children[i].success

\* C2: a Command that completes with success = false and has at least one
\* child with success = false makes the wrapped operation raise
\* HadoopProvisionError with the message of the first failing child in child
\* order.
C2_FirstFailingChildMessage ==
    CmdFailedWithFailingChild =>
        /\ cmdPc = "raised"
        /\ \E i \in 1..Len(cmdResult.children) :
            /\ ~cmdResult.children[i].success
            /\ \A j \in 1..(i - 1) : cmdResult.children[j].success
            /\ cmdErr = cmdResult.children[i].resultMessage

\* C2's case: a succeeding child is skipped, the failing child after it gives
\* the message, and the two messages differ.
C2_Witness ==
    /\ cmdPc = "raised"
    /\ Len(cmdResult.children) = 2
    /\ cmdResult.children[1].success
    /\ ~cmdResult.children[2].success
    /\ cmdResult.children[1].resultMessage # cmdResult.children[2].resultMessage
    /\ cmdErr = cmdResult.children[2].resultMessage

\* C3: a Command that completes with success = false and has no children (the
\* child sequence is absent or empty) makes the wrapped operation raise
\* HadoopProvisionError with the Command's own result message.
C3_OwnMessageWithoutChildren ==
    (Len(cmdWaited) > 0 /\ ~cmdResult.success /\ Len(cmdResult.children) = 0)
        => (cmdPc = "raised" /\ cmdErr = cmdResult.resultMessage)

\* C4: no failed Command is swallowed: if any awaited Command completed with
\* success = false, the operation has raised HadoopProvisionError and does not
\* return normally, whatever the children's success flags are.
C4_NoFailedCommandSwallowed ==
    (\E i \in 1..Len(cmdWaited) : ~cmdWaited[i])
        => (cmdPc = "raised" /\ cmdErr # NoError)

\* C5: when every Command waited on completed with success = true, the
\* wrapped operation raises nothing, whatever children the Commands have, and
\* when it returns it has waited on every Command the operation produced.
C5_AllSuccessReturnsNormally ==
    (\A i \in 1..Len(cmdWaited) : cmdWaited[i]) =>
        /\ cmdPc # "raised"
        /\ cmdErr = NoError
        /\ cmdPc = "returned" => Len(cmdWaited) = cmdProduced

\* C5's case: the operation returned after two successful Commands, the last
\* of which has a failing child.
C5_Witness ==
    /\ cmdPc = "returned"
    /\ cmdWaited = <<TRUE, TRUE>>
    /\ cmdResult.hasChildren
    /\ \E i \in 1..Len(cmdResult.children) : ~cmdResult.children[i].success

\* The table of the claim, written out.
C6_Table ==
    [p \in TabledProcesses |->
        CASE p \in {"NAMENODE", "DATANODE", "SECONDARYNAMENODE"} -> "hdfs01"
          [] p \in {"RESOURCEMANAGER", "NODEMANAGER", "JOBHISTORY"} -> "yarn01"
          [] p = "OOZIE_SERVER" -> "oozie01"
          [] p \in {"HIVESERVER2", "HIVEMETASTORE", "WEBHCAT"} -> "hive01"
          [] p = "HUE_SERVER" -> "hue01"
          [] p = "SPARK_YARN_HISTORY_SERVER" -> "spark_on_yarn01"
          [] p = "SERVER" -> "zookeeper01"
          [] p \in {"MASTER", "REGIONSERVER"} -> "hbase01"]

\* C6: called with a cluster or an instance, get_service_by_role returns
\* exactly the mapped service (of that cluster) for every tabled process
\* identifier, and raises the unsupported-process error, resolving no service,
\* for every identifier outside the table.  (Called with neither, it raises
\* the missing-argument error and resolves nothing.)
C6_RouterTable ==
    rtOut.raised # "not called" =>
        IF rtIn.cluster = None /\ rtIn.instance = None
        THEN rtOut.raised = RtMissingArgument /\ rtOut.service = NoService
        ELSE IF rtIn.process \in DOMAIN C6_Table
        THEN /\ rtOut.raised = RtOk
             /\ rtOut.service = C6_Table[rtIn.process]
             /\ rtOut.cm_cluster = IF rtIn.cluster # None THEN rtIn.cluster
                                   ELSE ClusterOfInstance(rtIn.instance)
        ELSE rtOut.raised = RtUnsupported /\ rtOut.service = NoService

\* C6's case: a tabled identifier of the last branch was routed through an
\* instance's cluster.
C6_Witness ==
    /\ rtIn.process = "JOBHISTORY"
    /\ rtIn.cluster = None
    /\ rtIn.instance = "inst2"
    /\ rtOut = [raised |-> RtOk, cm_cluster |-> "cluster2",
                service |-> "yarn01"]

----------------------------------------------------------------------------
(* Claims about the periodic tasks                                          *)

\* What the reaper read of cluster c when it evaluated it in this cycle says
\* the cluster was Active, transient, without a job execution lacking an end
\* time, and updated no less than the minimal lifetime ago.
C7_Eligible(c) ==
    /\ rpEval[c].status = "Active"
    /\ rpEval[c].is_transient
    /\ rpEval[c].jc = 0
    /\ rpEval[c].spacing >= MIN_TRANSIENT_CLUSTER_ACTIVE_TIME

\* C7: in every cycle of terminate_unneeded_clusters, terminate_cluster is
\* called for a cluster, or its status AwaitingTermination requested, only if
\* the cluster was Active, transient, idle and past the minimal lifetime when
\* it was evaluated; and in a cycle that runs to completion this is done for
\* every cluster that was so.
C7_TerminatesExactlyEligible ==
    /\ \A c \in rpCalls \cup rpFlagged : C7_Eligible(c)
    /\ rpOutcome = "completed" =>
        \A c \in ClusterIds : C7_Eligible(c) => c \in rpCalls \cup rpFlagged

\* C7's case: a completed cycle terminated a cluster updated exactly the
\* minimal lifetime ago and skipped a transient one with an open job
\* execution.
C7_Witness ==
    /\ rpOutcome = "completed"
    /\ \E c, d \in ClusterIds :
        /\ c \in rpCalls
        /\ rpEval[c].spacing = MIN_TRANSIENT_CLUSTER_ACTIVE_TIME
        /\ d \notin rpCalls \cup rpFlagged
        /\ rpEval[d].status = "Active"
        /\ rpEval[d].is_transient
        /\ rpEval[d].jc > 0

\* The name has the prefix 'job_'.
C8_JobBound(name) ==
    /\ Len(name) >= 4
    /\ name[1] = "j" /\ name[2] = "o" /\ name[3] = "b" /\ name[4] = "_"

\* The job execution id embedded in a job-bound name.
C8_EmbeddedId(name) == [i \in 1..(Len(name) - 4) |-> name[i + 4]]

\* C8: in every cycle of check_for_zombie_proxy_users, proxy_user_delete is
\* called for a user it checked if and only if the user's name has the prefix
\* 'job_' and the job execution whose id is embedded in the name was found
\* missing or in a terminal status; a user whose job execution is still
\* running and a user whose name does not match are not deleted (they are
\* still in the domain).
C8_DeletesExactlyZombies ==
    \A i \in 1..Len(zbLog) :
        LET e == zbLog[i]
        IN  /\ e.asked = C8_JobBound(e.name)
            /\ e.asked => e.je_id = C8_EmbeddedId(e.name)
            /\ e.deleted <=>
                 /\ C8_JobBound(e.name)
                 /\ (e.je = "MISSING" \/ e.je \in JOB_STATUSES_TERMINATED)
            /\ ~e.deleted => e.name \in users

\* C8's case: one completed cycle deleted job_1, whose job execution had
\* ended, and job_2, whose job execution was missing, and left admin and job1.
C8_Witness ==
    /\ zbOutcome = "completed"
    /\ Len(zbLog) = 4
    /\ zbLog[1].deleted /\ zbLog[1].je = "SUCCEEDED"
    /\ ~zbLog[2].deleted
    /\ ~zbLog[3].deleted
    /\ zbLog[4].deleted /\ zbLog[4].je = "MISSING"
    /\ users = {<<"a", "d", "m", "i", "n">>, <<"j", "o", "b", "1">>}

\* C9: after every run of update_job_statuses, including one in which
\* job_manager.update_job_statuses raises, the current execution context is
\* cleared (None).
C9_ContextClearedAfterJobStatuses ==
    (lastTask.name = "update_job_statuses" /\ NoTaskRunning) => ctx = None

\* C10: a failure while terminating one cluster (the admin-token setup, the
\* termination call or the status update) is isolated to that cluster: when
\* the cycle has ended, no transient cluster of the cycle's list is left
\* without having been evaluated.
C10_TerminationFailureIsolated ==
    (rpPc = "idle" /\ rpFailed # {}) =>
        \A i \in 1..Len(rpList) : ~rpList[i].is_transient

\* C15: within one invocation of a wrapped operation the Commands are waited
\* on in production order, one at a time, and a failure aborts the rest: a
\* Command that completed with success = False is the last one waited on
\* and the last one the generator produced (in update_configs, the last
\* client-config redeploy submitted).
C15_FailureAbortsTheRest ==
    /\ cmdProduced - Len(cmdWaited) \in {0, 1}
    /\ \A k \in 1..Len(cmdWaited) :
        ~cmdWaited[k] => (k = Len(cmdWaited) /\ cmdProduced = k)

----------------------------------------------------------------------------
(* Claims about await_agents                                                *)

\* C11: await_agents returns normally only when the inventory it polled
\* last held the fqdn of every requested instance; an iteration whose poll
\* missed one sleeps the 5 seconds and goes back to the loop, an iteration
\* whose poll missed none returns.
C11_SuccessOnlyWhenAllRegistered ==
    /\ [](awPc = "returned" =>
            /\ awPolled # NotPolled
            /\ awInstances \subseteq awPolled)
    /\ [][(awPc = "checked" /\ awPc' # "checked") =>
            IF awInstances \subseteq awPolled
            THEN awPc' = "returned"
            ELSE /\ awPc' = "test"
                 /\ awElapsed' = awElapsed + SLEEP_SECONDS]_vars

\* Both agents were asked for and the call returned after a poll that was
\* not the first one.
C11_Witness ==
    /\ awPc = "returned"
    /\ awInstances = Fqdns
    /\ awPollAt >= SLEEP_SECONDS
    /\ Fqdns \subseteq awPolled

\* C12 as stated: await_agents raises only if the requested names were not
\* all in the inventory from some moment before the 300 seconds had passed;
\* when they were, it returns.
C12_PresentBeforeTimeoutSucceeds ==
    awPc = "raised" => ~(awSince # Never /\ awSince < AWAIT_TIMEOUT)

\* C12, amended: await_agents always ends.  At the loop test it polls if
\* fewer than 300 seconds have passed and raises otherwise, so no poll is
\* made once 300 seconds have passed; it returns when such a poll found
\* every requested name, and raises after a last poll that missed one.  If
\* the names are all there when it raises, they came after that last poll
\* was made.
C12_TerminatesByTimeout ==
    /\ (awPc = "test") ~> (awPc \in {"returned", "raised"})
    /\ [](awPollAt < AWAIT_TIMEOUT)
    /\ [](awPc = "returned" => awInstances \subseteq awPolled)
    /\ [](awPc = "raised" =>
            /\ awElapsed >= AWAIT_TIMEOUT
            /\ awPolled # NotPolled
            /\ ~(awInstances \subseteq awPolled)
            /\ (awSince # Never => awSince >= awPollAt))
    /\ [][(awPc = "test" /\ awPc' # "test") =>
            IF awElapsed < AWAIT_TIMEOUT
            THEN awPc' = "checked" /\ awPollAt' = awElapsed
            ELSE awPc' = "raised"]_vars

\* The timeout: an agent is still missing and the error was raised.
C12_Witness ==
    /\ awPc = "raised"
    /\ awElapsed >= AWAIT_TIMEOUT
    /\ awInstances = Fqdns
    /\ ~(Fqdns \subseteq awInventory)

----------------------------------------------------------------------------
(* Claims about delete_instances                                            *)

\* The hostname the inventory gives for a host id.
C13_HostnameOf(id) ==
    LET k == CHOOSE k \in 1..Len(diAll) : diAll[k].hostId = id
    IN  diAll[k].hostname

C13_Attempted(op, id) ==
    \E k \in 1..Len(diLog) : diLog[k].op = op /\ diLog[k].hostId = id

\* C13: delete_instances processes the hosts independently: when it has
\* ended, with or without a failure on one host, every other host whose
\* hostname is one of the instances' has had both remove_host and
\* delete_host attempted.
C13_FailureDoesNotBlockOthers ==
    (diPc \in {"returned", "raised"} /\ diLog # <<>>) =>
        \A k \in 1..Len(diAll) :
            (/\ diAll[k].hostname \in diTargets
             /\ diAll[k].hostId # diLog[Len(diLog)].hostId)
            => /\ C13_Attempted("remove_host", diAll[k].hostId)
               /\ C13_Attempted("delete_host", diAll[k].hostId)

\* The calls a run without failure makes on the hosts, in order.
RECURSIVE C19_Expected(_)
C19_Expected(hosts) ==
    IF hosts = <<>> THEN <<>>
    ELSE IF Head(hosts).hostname \in diTargets
    THEN <<[op |-> "remove_host", hostId |-> Head(hosts).hostId],
           [op |-> "delete_host", hostId |-> Head(hosts).hostId]>>
         \o C19_Expected(Tail(hosts))
    ELSE C19_Expected(Tail(hosts))

C19_Made == [k \in 1..Len(diLog) |->
                [op |-> diLog[k].op, hostId |-> diLog[k].hostId]]

\* C19: delete_instances calls remove_host and delete_host only on hosts
\* whose hostname is the fqdn of a given instance, and for each such host
\* remove_host first and delete_host right after it: the calls made are the
\* beginning of that list, all of it when the function returns, and only
\* the last call made can have raised.
C19_OnlyTargetsInOrder ==
    /\ Len(C19_Made) <= Len(C19_Expected(diAll))
    /\ C19_Made = SubSeq(C19_Expected(diAll), 1, Len(C19_Made))
    /\ \A k \in 1..Len(diLog) :
        /\ C13_HostnameOf(diLog[k].hostId) \in diTargets
        /\ diLog[k].op = "delete_host" =>
            /\ k > 1
            /\ diLog[k - 1] = [op |-> "remove_host",
                               hostId |-> diLog[k].hostId, raised |-> FALSE]
        /\ diLog[k].raised => (k = Len(diLog) /\ diPc = "raised")
    /\ diPc = "returned" => C19_Made = C19_Expected(diAll)

\* A run that returned after it removed and deleted one host and passed
\* over a host that belongs to no instance.
C19_Witness ==
    /\ diPc = "returned"
    /\ Len(diLog) = 2
    /\ \E k \in 1..Len(diAll) : diAll[k].hostname \notin diTargets
    /\ Len(diAll) = 3

----------------------------------------------------------------------------
(* Claims about configure_instances                                         *)

\* The (instance, process) pairs of the call that are to get a role, in
\* instance order, then process order: from pair (i, j) on.
RECURSIVE C20_PairsFrom(_, _)
C20_PairsFrom(i, j) ==
    IF i > Len(cfArgs) THEN <<>>
    ELSE IF j > Len(cfArgs[i].node_processes) THEN C20_PairsFrom(i + 1, 1)
    ELSE IF cfArgs[i].node_processes[j] = "CLOUDERA_MANAGER"
    THEN C20_PairsFrom(i, j + 1)
    ELSE <<[i |-> i, j |-> j, instance |-> cfArgs[i].name]>>
         \o C20_PairsFrom(i, j + 1)

C20_Pairs == C20_PairsFrom(1, 1)

C20_PairOf(role) == [i |-> role.i, j |-> role.j, instance |-> role.instance]

\* C20: configure_instances creates one role per (instance, declared
\* process) pair other than CLOUDERA_MANAGER, in instance order then
\* process order, and pushes its configuration before it goes on: the roles
\* created are the beginning of the list of pairs, all of it when the
\* function returns.  What raises on a pair ends the function on that pair:
\* it is the first pair not yet configured, no later pair has a role, and
\* the roles created before (and the one whose configuration push raised)
\* are still there.
C20_OneRolePerPairInOrder ==
    /\ Len(cfRoles) <= Len(C20_Pairs)
    /\ \A k \in 1..Len(cfRoles) : C20_PairOf(cfRoles[k]) = C20_Pairs[k]
    /\ Len(cfPushed) <= Len(cfRoles)
    /\ cfPushed = SubSeq(cfRoles, 1, Len(cfPushed))
    /\ cfPc = "returned" =>
        /\ Len(cfRoles) = Len(C20_Pairs)
        /\ cfPushed = cfRoles
        /\ cfErr = NoFailure
    /\ cfPc = "loop" => (cfPushed = cfRoles /\ cfErr = NoFailure)
    /\ cfPc = "raised" =>
        /\ Len(cfPushed) < Len(C20_Pairs)
        /\ cfErr.i = C20_Pairs[Len(cfPushed) + 1].i
        /\ cfErr.j = C20_Pairs[Len(cfPushed) + 1].j
        /\ cfErr.what \in {RtUnsupported, "create_role", "update_config"}
        /\ Len(cfRoles) =
             Len(cfPushed) + (IF cfErr.what = "update_config" THEN 1 ELSE 0)

\* Two instances, one of them with the manager process, were configured
\* and the function returned with a role for each of the other pairs.
C20_Witness ==
    /\ cfPc = "returned"
    /\ Len(cfArgs) = 2
    /\ \E i \in 1..2, j \in 1..MaxProcs :
        /\ j <= Len(cfArgs[i].node_processes)
        /\ cfArgs[i].node_processes[j] = "CLOUDERA_MANAGER"
    /\ Len(cfRoles) >= 2
    /\ cfRoles[1].instance # cfRoles[Len(cfRoles)].instance

----------------------------------------------------------------------------
(* Claims about the two ways of terminating and about retries               *)

\* The cycle has still to visit cluster c.
C16_StillListed(c) == \E k \in 1..Len(rpList) : rpList[k].id = c

\* C16 as stated: with the identity API v3 the reaper only calls
\* ops.terminate_cluster and never changes a status; without it the reaper
\* never calls ops.terminate_cluster, and it requests the status
\* AwaitingTermination at most once per cluster over all cycles: a cluster
\* whose status update is called for in this cycle had none called for in
\* an earlier cycle.
C16_OnePathFlaggedOnce ==
    /\ use_identity_api_v3 =>
        /\ rpFlagged = {}
        /\ \A c \in ClusterIds : clusters[c].status # "AwaitingTermination"
    /\ ~use_identity_api_v3 =>
        /\ rpCalls = {}
        /\ (rpFlagged \cup rpFailed) \cap rpAsked = {}

\* C16, amended: the flag alone chooses the path of every eligible
\* cluster.  With the identity API v3 ops.terminate_cluster is called and
\* no status update is ever requested.  Without it ops.terminate_cluster is
\* never called and the status AwaitingTermination is requested, once per
\* cycle at most; a request that went through leaves the cluster out of
\* every later cycle, so none follows it (a request that raised is made
\* again by a later cycle).
C16_OnePathPerCluster ==
    /\ use_identity_api_v3 =>
        /\ rpFlagged = {} /\ rpAsked = {}
        /\ \A c \in ClusterIds : clusters[c].status # "AwaitingTermination"
    /\ ~use_identity_api_v3 =>
        /\ rpCalls = {}
        /\ \A c \in ClusterIds :
            /\ clusters[c].status # "Deleted"
            /\ c \in rpFlagged => clusters[c].status = "AwaitingTermination"
            /\ c \in rpFlagged \cup rpFailed => ~C16_StillListed(c)
            /\ (clusters[c].status = "AwaitingTermination" /\ c \notin rpFlagged)
               => /\ c \notin rpFailed
                  /\ rpEval[c] = NotEvaluated
                  /\ ~C16_StillListed(c)
    /\ rpOutcome = "completed" =>
        \A c \in ClusterIds :
            C7_Eligible(c) =>
                c \in (IF use_identity_api_v3 THEN rpCalls ELSE rpFlagged)

\* Without the identity API v3, a cluster whose status update raised in an
\* earlier cycle has now been given the status AwaitingTermination.
C16_Witness ==
    /\ ~use_identity_api_v3
    /\ \E c \in ClusterIds :
        /\ c \in rpAsked
        /\ c \in rpFlagged
        /\ clusters[c].status = "AwaitingTermination"

\* C17: ops.terminate_cluster is called at most once per cluster in a
\* cycle (a cluster it was called for is not visited again), and a cluster
\* whose termination call raised, and which stayed Active, transient, idle
\* and past the minimal lifetime, is called for again by the next cycle:
\* when the next cycle that got the list of clusters has ended, the call
\* was made again, unless the set-up of the cluster's own admin token
\* raised.
C17_RetriedByNextCycle ==
    /\ \A c \in rpCalls : ~C16_StillListed(c)
    /\ (rpPc = "idle" /\ (rpOutcome = "completed" \/ rpFailed # {})) =>
        \A c \in rpRetry : c \in rpCalls \cup rpFailed

----------------------------------------------------------------------------
(* Claims about the scheduler                                               *)

\* C14: a task that is disabled never fires.  When
\* use_domain_for_proxy_users is false, check_for_zombie_proxy_users has
\* never started: it has listed no user and looked at none, let alone
\* deleted one.  When periodic_enable is false no task has ever started or
\* ended, and the context was never set.
C14_DisabledTasksNeverFire ==
    /\ ~use_domain_for_proxy_users =>
        /\ zbPc = "idle" /\ zbOutcome = "none"
        /\ zbList = <<>> /\ zbLog = <<>>
        /\ lastTask.name # "check_for_zombie_proxy_users"
    /\ ~periodic_enable =>
        /\ lastTask = NoTask
        /\ rpPc = "idle" /\ rpOutcome = "none"
        /\ zbPc = "idle" /\ zbOutcome = "none"
        /\ ctx = None

\* The scheduler runs without the proxy domain: another task has ended, and
\* a user bound to a job execution that does not exist is in the domain,
\* untouched.
C14_Witness ==
    /\ periodic_enable
    /\ ~use_domain_for_proxy_users
    /\ lastTask.name = "terminate_unneeded_clusters"
    /\ <<"j", "o", "b", "_", "1">> \in users
    /\ JobExecutionGet(<<"1">>) = Missing

\* The job execution a user named job_<id> is bound to is gone or over.
C18_IsZombie(name) ==
    LET je_id == [i \in 1..(Len(name) - 4) |-> name[i + 4]]
        je == IF je_id \in DOMAIN jobExec THEN jobExec[je_id] ELSE Missing
    IN  je = Missing \/ je \in JOB_STATUSES_TERMINATED

C18_JobUsers == {name \in UserNames : C8_JobBound(name)}

\* C18: with the proxy domain in use and the scheduler enabled, in a run
\* where the scheduler is fair and no call of the task raises, no user
\* named job_<id> stays for ever in the domain while its job execution is
\* terminal or missing: it is deleted (or, in this model, where an id may
\* be used again, its job execution comes to life).
C18_ZombieEventuallyDeleted ==
    \A name \in C18_JobUsers :
        [](zbOutcome # "aborted") =>
            ((name \in users /\ C18_IsZombie(name))
                ~> (name \notin users \/ ~C18_IsZombie(name)))

\* A cycle has just deleted the user of a job execution that had ended.
C18_Witness ==
    /\ use_domain_for_proxy_users /\ periodic_enable
    /\ zbOutcome = "completed"
    /\ \E k \in 1..Len(zbLog) :
        /\ zbLog[k].deleted
        /\ zbLog[k].je \in JOB_STATUSES_TERMINATED
        /\ zbLog[k].name \notin users

----------------------------------------------------------------------------
(* Claims about the reaper and job submissions that run beside it           *)

\* C21: at the moment ops.terminate_cluster is called for a cluster, or its
\* status AwaitingTermination is set, the cluster has no job execution
\* without an end time, even if a job was submitted after the reaper
\* counted the job executions of the cluster in this cycle.
C21_NoOpenJobWhenTerminated ==
    [][\A c \in ClusterIds :
          (c \in rpCalls' \ rpCalls \/ c \in rpFlagged' \ rpFlagged)
              => openJobs[c] = 0]_vars

=============================================================================
